---- MODULE Spec2Model ----
(***************************************************************************)
(* Model of fix_html_links.py: build_html_index, find_target_path,         *)
(* fix_links_in_html and main.                                             *)
(*                                                                         *)
(* A Python string is a sequence of tokens: "/" is the path separator, a   *)
(* token beginning with "." (".html", ".png") is a file-name extension,    *)
(* "#", "http://" and "https://" are the prefixes the code tests, every    *)
(* other token is a run of ordinary characters.  A file-system path is a   *)
(* sequence of components, each component a string.                        *)
(***************************************************************************)
EXTENDS Integers, Sequences, FiniteSets, TLC

VARIABLES files, walkOrder, content, index, pc, pos, run, written, before, call

vars == <<files, walkOrder, content, index, pc, pos, run, written, before, call>>

-----------------------------------------------------------------------------
(* Bounds of the model *)

MaxFiles == 3
MaxLinks == 2
MaxNodes == 2
MaxRuns == 2

-----------------------------------------------------------------------------
(* Strings *)

SEP == "/"

None == <<"<None>">>

Last(s) == s[Len(s)]

ButLast(s) == SubSeq(s, 1, Len(s) - 1)

startswith(s, tok) == Len(s) > 0 /\ s[1] = tok

RECURSIVE lstrip(_)
lstrip(s) == IF s # <<>> /\ Head(s) = SEP THEN lstrip(Tail(s)) ELSE s

RECURSIVE split(_)
split(s) ==
    IF \A i \in 1..Len(s) : s[i] # SEP
    THEN <<s>>
    ELSE LET i == CHOOSE k \in 1..Len(s) :
                      s[k] = SEP /\ \A j \in 1..(k - 1) : s[j] # SEP
         IN  <<SubSeq(s, 1, i - 1)>> \o split(SubSeq(s, i + 1, Len(s)))

RECURSIVE joinsep(_)
joinsep(comps) ==
    IF comps = <<>> THEN <<>>
    ELSE IF Len(comps) = 1 THEN comps[1]
    ELSE comps[1] \o <<SEP>> \o joinsep(Tail(comps))

lowerTok(t) ==
    CASE t = ".HTML" -> ".html"
      [] OTHER -> t

lower(s) == [i \in 1..Len(s) |-> lowerTok(s[i])]

endswith(s, suffix) ==
    Len(s) >= Len(suffix) /\ SubSeq(s, Len(s) - Len(suffix) + 1, Len(s)) = suffix

IsExtTok(t) == t \in {".html", ".HTML", ".png", ".txt"}

-----------------------------------------------------------------------------
(* os.path *)

basename(s) == Last(split(s))

RECURSIVE rstrip(_)
rstrip(s) == IF s # <<>> /\ Last(s) = SEP THEN rstrip(ButLast(s)) ELSE s

dirname(s) ==
    LET c == split(s)
        head == joinsep(ButLast(c)) \o <<SEP>>
    IN  IF Len(c) = 1 THEN <<>>
        ELSE IF lstrip(head) = <<>> THEN head
        ELSE rstrip(head)

join(a, b) ==
    IF startswith(b, SEP) THEN b
    ELSE IF a = <<>> \/ Last(a) = SEP THEN a \o b
    ELSE a \o <<SEP>> \o b

splitext(s) ==
    IF Len(s) > 1 /\ IsExtTok(Last(s)) THEN <<ButLast(s), <<Last(s)>>>>
    ELSE <<s, <<>>>>

RECURSIVE normstack(_, _)
normstack(comps, acc) ==
    IF comps = <<>> THEN acc
    ELSE LET c == Head(comps) IN
         IF c = <<>> \/ c = <<".">> THEN normstack(Tail(comps), acc)
         ELSE IF c = <<"..">>
              THEN normstack(Tail(comps), IF acc = <<>> THEN <<>> ELSE ButLast(acc))
              ELSE normstack(Tail(comps), Append(acc, c))

abspath(s) == normstack(split(s), <<>>)

RECURSIVE commonprefix(_, _)
commonprefix(a, b) ==
    IF a = <<>> \/ b = <<>> \/ Head(a) # Head(b) THEN 0
    ELSE 1 + commonprefix(Tail(a), Tail(b))

relpath(path, start) ==
    LET start_list == abspath(start)
        path_list == abspath(path)
        i == commonprefix(start_list, path_list)
        rel_list == [k \in 1..(Len(start_list) - i) |-> <<"..">>]
                        \o SubSeq(path_list, i + 1, Len(path_list))
    IN  IF rel_list = <<>> THEN <<".">> ELSE joinsep(rel_list)

(* The file system: fs is the set of absolute paths of the regular files. *)

ProjectRoot == <<SEP, "r">>

Prefixes(p) == {SubSeq(p, 1, n) : n \in 0..(Len(p) - 1)}

Dirs(fs) == UNION {Prefixes(p) : p \in fs} \cup {<<>>, abspath(ProjectRoot)}

RECURSIVE lookup(_, _, _)
lookup(comps, cur, fs) ==
    IF comps = <<>> THEN TRUE
    ELSE IF cur \notin Dirs(fs) THEN FALSE
    ELSE LET c == Head(comps) IN
         IF c = <<>> \/ c = <<".">> THEN lookup(Tail(comps), cur, fs)
         ELSE IF c = <<"..">>
              THEN lookup(Tail(comps), IF cur = <<>> THEN <<>> ELSE ButLast(cur), fs)
              ELSE /\ Append(cur, c) \in Dirs(fs) \cup fs
                   /\ lookup(Tail(comps), Append(cur, c), fs)

exists(s, fs) == lookup(split(s), <<>>, fs)

PathStr(p) == <<SEP>> \o joinsep(p)

-----------------------------------------------------------------------------
(* build_html_index *)

EmptyIndex == [k \in {} |-> <<>>]

IsHtmlName(file) == endswith(lower(file), <<".html">>)

setdefault_append(idx, file, rel_path) ==
    IF file \in DOMAIN idx
    THEN [idx EXCEPT ![file] = Append(@, rel_path)]
    ELSE [k \in DOMAIN idx \cup {file} |-> IF k = file THEN <<rel_path>> ELSE idx[k]]

(* Mutant: records the path relative to the directory being listed. *)
RECURSIVE index_walk_rel_to_dir(_, _, _)
index_walk_rel_to_dir(walk, project_root, idx) ==
    IF walk = <<>> THEN idx
    ELSE LET root == PathStr(ButLast(Head(walk)))
             file == Last(Head(walk))
             full_path == join(root, file)
             rel_path == relpath(full_path, root)
         IN  IF IsHtmlName(file)
             THEN index_walk_rel_to_dir(Tail(walk), project_root,
                                        setdefault_append(idx, file, rel_path))
             ELSE index_walk_rel_to_dir(Tail(walk), project_root, idx)

RECURSIVE index_walk(_, _, _)
index_walk(walk, project_root, idx) ==
    IF walk = <<>> THEN idx
    ELSE LET root == PathStr(ButLast(Head(walk)))
             file == Last(Head(walk))
             full_path == join(root, file)
             rel_path == relpath(full_path, project_root)
         IN  IF IsHtmlName(file)
             THEN index_walk(Tail(walk), project_root,
                             setdefault_append(idx, file, rel_path))
             ELSE index_walk(Tail(walk), project_root, idx)

build_html_index(walk, project_root) == index_walk(walk, project_root, EmptyIndex)

-----------------------------------------------------------------------------
(* find_target_path *)

(* Mutant: removes one leading separator only. *)
normalize_href_once(href) == IF startswith(href, SEP) THEN Tail(href) ELSE href

normalize_href(href) == lstrip(href)

(* Mutant: looks the basename up before trying the path as given. *)
find_target_path_index_first(href, idx, project_root, fs) ==
    LET normalized_href == lstrip(href)
        candidate_path == join(project_root, normalized_href)
        base == basename(normalized_href)
    IN  IF base \in DOMAIN idx THEN idx[base][1]
        ELSE IF exists(candidate_path, fs)
        THEN relpath(candidate_path, project_root)
        ELSE None

(* Mutant: takes the last candidate of an ambiguous basename. *)
find_target_path_last_entry(href, idx, project_root, fs) ==
    LET normalized_href == lstrip(href)
        candidate_path == join(project_root, normalized_href)
        base == basename(normalized_href)
    IN  IF exists(candidate_path, fs)
        THEN relpath(candidate_path, project_root)
        ELSE IF base \in DOMAIN idx THEN idx[base][Len(idx[base])]
        ELSE None

find_target_path(href, idx, project_root, fs) ==
    LET normalized_href == normalize_href(href)
        candidate_path == join(project_root, normalized_href)
        base == basename(normalized_href)
    IN  IF exists(candidate_path, fs)
        THEN relpath(candidate_path, project_root)
        ELSE IF base \in DOMAIN idx THEN idx[base][1]
        ELSE None

-----------------------------------------------------------------------------
(* The parsed document: the elements of the tree in document order, each   *)
(* with its nesting depth; an element's descendants are the elements that  *)
(* follow it with a greater depth.  text is the element's own text.        *)

Node(tag, cls, id, url, text, depth) ==
    [tag |-> tag, cls |-> cls, id |-> id, url |-> url, text |-> text, depth |-> depth]

IsSpace(t) == t \in {" ", "\n"}

RECURSIVE strip_left(_)
strip_left(s) == IF s # <<>> /\ IsSpace(Head(s)) THEN strip_left(Tail(s)) ELSE s

RECURSIVE strip_right(_)
strip_right(s) == IF s # <<>> /\ IsSpace(Last(s)) THEN strip_right(ButLast(s)) ELSE s

strip(s) == strip_right(strip_left(s))

RECURSIVE remove_whitespace(_)
remove_whitespace(s) ==
    IF s = <<>> THEN <<>>
    ELSE IF IsSpace(Head(s)) THEN remove_whitespace(Tail(s))
    ELSE <<Head(s)>> \o remove_whitespace(Tail(s))

RECURSIVE subtree_len(_, _, _)
subtree_len(soup, i, j) ==
    IF j <= Len(soup) /\ soup[j].depth > soup[i].depth
    THEN subtree_len(soup, i, j + 1)
    ELSE j - i

decompose(soup, i) ==
    SubSeq(soup, 1, i - 1) \o SubSeq(soup, i + subtree_len(soup, i, i + 1), Len(soup))

RECURSIVE text_of(_, _, _)
text_of(soup, j, n) ==
    IF n = 0 THEN <<>> ELSE strip(soup[j].text) \o text_of(soup, j + 1, n - 1)

get_text_strip(soup, i) == text_of(soup, i, subtree_len(soup, i, i + 1))

-----------------------------------------------------------------------------
(* fix_links_in_html: the <a> loop *)

Truthy(v) == v # None /\ v # <<>>

(* Mutant: forgets the https:// prefix. *)
IsSkippedHref_no_https(href) ==
    startswith(href, "#") \/ startswith(href, "http://")

IsSkippedHref(href) ==
    startswith(href, "#") \/ startswith(href, "http://") \/ startswith(href, "https://")

(* Mutant: assigns and flags the change without comparing with the old value. *)
assign_href_unconditional(node, href, new_href) ==
    [node |-> [node EXCEPT !.url = new_href], changed |-> TRUE]

assign_href(node, href, new_href) ==
    IF new_href # href
    THEN [node |-> [node EXCEPT !.url = new_href], changed |-> TRUE]
    ELSE [node |-> node, changed |-> FALSE]

fix_a(node, file_path, project_root, idx, fs) ==
    LET href == node.url
        target_rel == find_target_path(href, idx, project_root, fs)
        target_full_path == join(project_root, target_rel)
        new_href == relpath(target_full_path, dirname(file_path))
    IN  IF node.tag # "a" \/ node.url = None THEN [node |-> node, changed |-> FALSE]
        ELSE IF IsSkippedHref(href) THEN [node |-> node, changed |-> FALSE]
        ELSE IF Truthy(target_rel) THEN assign_href(node, href, new_href)
        ELSE [node |-> node, changed |-> FALSE]

(* fix_links_in_html: the <img> loop *)

HasSlash(s) == \E i \in 1..Len(s) : s[i] \in {SEP, "http://", "https://"}

AssetsPrefix == <<"..", SEP, "Assets", SEP>>

AssetsSuffix == <<"@2x", ".png">>

(* Mutant: rewrites a src that has a directory part too. *)
IsBareSrc_any(src) == TRUE

IsBareSrc(src) == ~HasSlash(src)

fix_img(node) ==
    LET src == node.url
        base == splitext(src)[1]
        new_src == AssetsPrefix \o base \o AssetsSuffix
    IN  IF node.tag # "img" \/ node.url = None THEN [node |-> node, changed |-> FALSE]
        ELSE IF startswith(src, "http://") \/ startswith(src, "https://")
             THEN [node |-> node, changed |-> FALSE]
        ELSE IF IsBareSrc(src) /\ new_src # src
             THEN [node |-> [node EXCEPT !.url = new_src], changed |-> TRUE]
        ELSE [node |-> node, changed |-> FALSE]

(* fix_links_in_html: the edits of The-Swift-Programming-Language.html *)

DesignatedName == <<"The-Swift-Programming-Language", ".html">>

IsCitation(node) == node.tag = "span" /\ node.cls = "citation"

RECURSIVE remove_citations(_, _)
remove_citations(soup, i) ==
    IF i > Len(soup) THEN soup
    ELSE IF IsCitation(soup[i]) THEN remove_citations(decompose(soup, i), i)
    ELSE remove_citations(soup, i + 1)

find_h2_topics(soup) ==
    IF \E i \in 1..Len(soup) : soup[i].tag = "h2" /\ soup[i].id = "topics"
    THEN CHOOSE i \in 1..Len(soup) :
             /\ soup[i].tag = "h2" /\ soup[i].id = "topics"
             /\ \A j \in 1..(i - 1) : ~(soup[j].tag = "h2" /\ soup[j].id = "topics")
    ELSE 0

topics_matches(soup) ==
    LET h2_topics == find_h2_topics(soup)
    IN  h2_topics # 0 /\ get_text_strip(soup, h2_topics) = <<"Topics">>

remove_topics(soup) ==
    IF topics_matches(soup) THEN decompose(soup, find_h2_topics(soup)) ELSE soup

rename_h3(soup) ==
    [i \in 1..Len(soup) |-> IF soup[i].tag = "h3" THEN [soup[i] EXCEPT !.tag = "h2"]
                            ELSE soup[i]]

unwanted_texts ==
    { <<"{", "}">>,
      <<"(scope:", "global)", "{", "(disabled)", "(disabled)", "(disabled)", "}">> }

IsUnwantedP(soup, i) ==
    soup[i].tag = "p" /\ remove_whitespace(get_text_strip(soup, i)) \in unwanted_texts

RECURSIVE remove_paragraphs(_, _)
remove_paragraphs(soup, i) ==
    IF i > Len(soup) THEN soup
    ELSE IF IsUnwantedP(soup, i) THEN remove_paragraphs(decompose(soup, i), i)
    ELSE remove_paragraphs(soup, i + 1)

book_edits(soup) ==
    LET s1 == remove_citations(soup, 1)
        s2 == remove_topics(s1)
        s3 == rename_h3(s2)
        s4 == remove_paragraphs(s3, 1)
    IN  [soup |-> s4,
         changed |-> \/ \E i \in 1..Len(soup) : IsCitation(soup[i])
                     \/ topics_matches(s1)
                     \/ \E i \in 1..Len(s2) : s2[i].tag = "h3"
                     \/ \E i \in 1..Len(s3) : IsUnwantedP(s3, i)]

(* fix_links_in_html: the whole function on the parsed tree of file_path *)

fix_tree(soup, file_path, project_root, idx, fs) ==
    LET afix == [i \in 1..Len(soup) |-> fix_a(soup[i], file_path, project_root, idx, fs)]
        ifix == [i \in 1..Len(soup) |-> fix_img(afix[i].node)]
        links == [i \in 1..Len(soup) |-> ifix[i].node]
        linked == \E i \in 1..Len(soup) : afix[i].changed \/ ifix[i].changed
        book == IF basename(file_path) = DesignatedName
                THEN book_edits(links)
                ELSE [soup |-> links, changed |-> FALSE]
    IN  [soup |-> book.soup, changed |-> linked \/ book.changed]

(* A file on disk: its parsed tree, and whether its bytes are still the    *)
(* ones it was authored with (raw) or the serializer's output.             *)

write_back(doc, result) ==
    IF result.changed THEN [raw |-> FALSE, tree |-> result.soup] ELSE doc

-----------------------------------------------------------------------------
(* The inputs: the trees, the listing orders and the documents.  Every     *)
(* HTML file of a tree holds the same document, so that each document is   *)
(* processed from every directory of the tree.                             *)

RootPath == abspath(ProjectRoot)

File_x_a == RootPath \o << <<"x">>, <<"a", ".html">> >>
File_y_a == RootPath \o << <<"y">>, <<"a", ".html">> >>
File_b == RootPath \o << <<"b", ".HTML">> >>
File_notes == RootPath \o << <<"notes", ".txt">> >>
File_outside_a == << <<"a", ".html">> >>
File_book == RootPath \o << DesignatedName >>

LinkFiles == {File_x_a, File_y_a, File_b, File_notes, File_outside_a}

BookFiles == {File_book, File_y_a, File_notes}

UnderRoot(fs) ==
    {p \in fs : Len(p) > Len(RootPath) /\ SubSeq(p, 1, Len(RootPath)) = RootPath}

HtmlFiles(fs) == {p \in UnderRoot(fs) : IsHtmlName(Last(p))}

(* os.walk is top-down: the files of a directory are listed together and   *)
(* before the files of its subdirectories; the order of the entries of one *)
(* directory is whatever the file system returns.                          *)
IsWalk(w, fs) ==
    /\ {w[i] : i \in 1..Len(w)} = UnderRoot(fs)
    /\ \A i, j \in 1..Len(w) : i < j =>
          /\ w[i] # w[j]
          /\ ButLast(w[j]) \notin Prefixes(ButLast(w[i]))
          /\ ButLast(w[i]) = ButLast(w[j]) =>
                \A k \in i..j : ButLast(w[k]) = ButLast(w[i])

WalkOrders(fs) ==
    LET n == Cardinality(UnderRoot(fs))
    IN  {w \in [1..n -> UnderRoot(fs)] : IsWalk(w, fs)}

Href_anchor == <<"#", "a", ".html">>
Href_http == <<"http://", "example", ".com", SEP, "a", ".html">>
Href_https == <<"https://", "example", ".com", SEP, "a", ".html">>
Href_missing == <<"c", ".html">>
Href_bare == <<"a", ".html">>
Href_y_a == <<"y", SEP, "a", ".html">>
Href_x_a == <<"x", SEP, "a", ".html">>
Href_wrong_dir == <<"z", SEP, "a", ".html">>
Href_rooted == <<SEP, "y", SEP, "a", ".html">>
Href_rooted2 == <<SEP, SEP, "x", SEP, "a", ".html">>
Href_up == <<"..", SEP, "a", ".html">>
Href_dotdot == <<"x", SEP, "..", SEP, "y", SEP, "a", ".html">>
Href_upper == <<"b", ".HTML">>
Href_up_y_a == <<"..", SEP, "y", SEP, "a", ".html">>

Hrefs ==
    { Href_missing, Href_bare, Href_y_a, Href_x_a, Href_wrong_dir, Href_rooted,
      Href_rooted2, Href_up, Href_dotdot, Href_upper, Href_up_y_a }

A(href) == Node("a", "", "", href, <<>>, 0)

Img(src) == Node("img", "", "", src, <<>>, 0)

Src_bare == <<"Foo", ".png">>
Src_noext == <<"Foo">>
Src_sub == <<"sub", SEP, "Foo", ".png">>
Src_http == <<"https://", "example", ".com", SEP, "Foo", ".png">>

LinkNodes ==
    { A(Href_anchor), A(Href_http), A(Href_https), A(Href_missing), A(Href_y_a),
      Img(Src_bare), Img(Src_noext), Img(Src_sub), Img(Src_http) }

Citation == Node("span", "citation", "", None, <<"[1]">>, 0)
H2_topics == Node("h2", "", "topics", None, <<"Topics">>, 0)
H2_other == Node("h2", "", "topics", None, <<"Overview">>, 0)
H3_topics == Node("h3", "", "topics", None, <<" ", "Topics", "\n">>, 0)
P_braces == Node("p", "", "", None, <<" ", "{", " ", "\n", "}">>, 0)
P_scope ==
    Node("p", "", "", None,
         <<"(scope:", "\n", "global)", " ", "{", " ", "(disabled)", " ",
           "(disabled)", "\n", "(disabled)", "\n", "}">>, 0)

BookNodes ==
    { Citation, H2_topics, H2_other, H3_topics, P_braces, P_scope,
      A(Href_y_a), Img(Src_bare) }

IsVoid(node) == node.tag = "img"

Shapes(n, nest) ==
    {dp \in [1..n -> 0..(n - 1)] :
        /\ n > 0 => dp[1] = 0
        /\ \A i \in 2..n : dp[i] <= dp[i - 1] + 1
        /\ ~nest => \A i \in 1..n : dp[i] = 0}

DocsOfLen(nodes, n, nest) ==
    {[i \in 1..n |-> [base[i] EXCEPT !.depth = dp[i]]] :
        <<base, dp>> \in
            {bd \in [1..n -> nodes] \X Shapes(n, nest) :
                \A i \in 2..n : bd[2][i] > bd[2][i - 1] => ~IsVoid(bd[1][i - 1])}}

Docs(nodes, maxlen, nest) == UNION {DocsOfLen(nodes, n, nest) : n \in 0..maxlen}

NoCall == [made |-> FALSE, href |-> <<>>, normalized |-> <<>>, target |-> None]

InitWith(candidates, docs) ==
    /\ files \in {t \in SUBSET candidates : Cardinality(t) <= MaxFiles}
    /\ walkOrder \in WalkOrders(files)
    /\ HtmlFiles(files) # {}
    /\ \E doc \in docs :
          content = [f \in HtmlFiles(files) |-> [raw |-> TRUE, tree |-> doc]]
    /\ before = content
    /\ index = EmptyIndex
    /\ pc = "start"
    /\ pos = 1
    /\ run = 1
    /\ written = {}
    /\ call = NoCall

Init == InitWith(LinkFiles, Docs(LinkNodes, MaxLinks, FALSE))

InitBook == InitWith(BookFiles, Docs(BookNodes, MaxNodes, TRUE))

InitResolve == InitWith(LinkFiles \cup {File_book}, {<<>>})

-----------------------------------------------------------------------------
(* main *)

BuildIndex ==
    /\ pc = "start"
    /\ index' = build_html_index(walkOrder, ProjectRoot)
    /\ pc' = "walk"
    /\ pos' = 1
    /\ UNCHANGED <<files, walkOrder, content, run, written, before, call>>

FilePathOf(f) == join(PathStr(ButLast(f)), Last(f))

FixDocument ==
    /\ pc = "walk"
    /\ pos <= Len(walkOrder)
    /\ IsHtmlName(Last(walkOrder[pos]))
    /\ LET f == walkOrder[pos]
           result == fix_tree(content[f].tree, FilePathOf(f), ProjectRoot, index, files)
       IN  /\ content' = [content EXCEPT ![f] = write_back(@, result)]
           /\ written' = IF result.changed THEN written \cup {f} ELSE written
    /\ pos' = pos + 1
    /\ UNCHANGED <<files, walkOrder, index, pc, run, before, call>>

SkipFile ==
    /\ pc = "walk"
    /\ pos <= Len(walkOrder)
    /\ ~IsHtmlName(Last(walkOrder[pos]))
    /\ pos' = pos + 1
    /\ UNCHANGED <<files, walkOrder, content, index, pc, run, written, before, call>>

Finish ==
    /\ pc = "walk"
    /\ pos > Len(walkOrder)
    /\ pc' = "done"
    /\ UNCHANGED <<files, walkOrder, content, index, pos, run, written, before, call>>

(* The program is started again on the tree the previous run left. *)
Rerun ==
    /\ pc = "done"
    /\ run < MaxRuns
    /\ run' = run + 1
    /\ pc' = "start"
    /\ pos' = 1
    /\ index' = EmptyIndex
    /\ written' = {}
    /\ before' = content
    /\ UNCHANGED <<files, walkOrder, content, call>>

Next == BuildIndex \/ FixDocument \/ SkipFile \/ Finish \/ Rerun

Spec == Init /\ [][Next]_vars

SpecBook == InitBook /\ [][Next]_vars

(* A call of find_target_path on the index and tree of the run. *)
Resolve(href) ==
    /\ pc = "walk"
    /\ call' = [made |-> TRUE, href |-> href, normalized |-> normalize_href(href),
                target |-> find_target_path(href, index, ProjectRoot, files)]
    /\ UNCHANGED <<files, walkOrder, content, index, pc, pos, run, written, before>>

NextResolve == BuildIndex \/ \E href \in Hrefs : Resolve(href)

SpecResolve == InitResolve /\ [][NextResolve]_vars

-----------------------------------------------------------------------------
(* Properties of find_target_path (SpecResolve) *)

RelOf(f) == relpath(PathStr(f), ProjectRoot)

CallIsExactPath == call.made /\ \E f \in files : call.href = RelOf(f)

CallMissesExactPath ==
    call.made /\ ~exists(join(ProjectRoot, call.normalized), files)

(* C2: an href that is the Root-relative path of an existing file is       *)
(* returned unchanged, whatever the basename index holds for its basename. *)
C2_ExactPathWins ==
    CallIsExactPath =>
        /\ call.target = call.href
        /\ find_target_path(call.href, EmptyIndex, ProjectRoot, files) = call.target

C2_Witness ==
    /\ CallIsExactPath
    /\ basename(call.href) \in DOMAIN index
    /\ Len(index[basename(call.href)]) > 1
    /\ index[basename(call.href)][1] # call.href

NamedHtmlFiles(base) == {f \in HtmlFiles(files) : Last(f) = base}

(* C3: an href whose basename names exactly one HTML file of the tree      *)
(* resolves to that file, whatever directory prefix it carries.            *)
C3_UniqueBasenameResolves ==
    call.made /\ Cardinality(NamedHtmlFiles(basename(call.href))) = 1 =>
        \A f \in NamedHtmlFiles(basename(call.href)) : call.target = RelOf(f)

FirstInWalk(base) ==
    CHOOSE i \in 1..Len(walkOrder) :
        /\ Last(walkOrder[i]) = base
        /\ \A j \in 1..(i - 1) : Last(walkOrder[j]) # base

CallIsAmbiguous ==
    /\ CallMissesExactPath
    /\ basename(call.normalized) \in DOMAIN index
    /\ Len(index[basename(call.normalized)]) > 1

(* C6: with no exact match and several index entries for the basename, the *)
(* result is the first entry, the first such file in traversal order.      *)
C6_FirstEntryOfAmbiguous ==
    CallIsAmbiguous =>
        /\ call.target = index[basename(call.normalized)][1]
        /\ call.target = RelOf(walkOrder[FirstInWalk(basename(call.normalized))])

C6_Witness ==
    /\ CallIsAmbiguous
    /\ index[basename(call.normalized)][1] # index[basename(call.normalized)][2]

LeadingSeps(s) ==
    CHOOSE k \in 0..Len(s) :
        /\ \A i \in 1..k : s[i] = SEP
        /\ k < Len(s) => s[k + 1] # SEP

(* C9 as stated: exactly one leading separator is removed.                 *)
C9_StripsOneSeparator ==
    call.made /\ startswith(call.href, SEP) => call.normalized = Tail(call.href)

(* C9 amended: every leading separator is removed.                         *)
C9_StripsAllSeparators ==
    call.made =>
        /\ call.normalized = SubSeq(call.href, LeadingSeps(call.href) + 1, Len(call.href))
        /\ ~startswith(call.normalized, SEP)

C9_Witness == call.made /\ LeadingSeps(call.href) = 2

-----------------------------------------------------------------------------
(* Properties of a run of main (Spec, SpecBook) *)

(* The HTML files fix_links_in_html has been called on in the current run. *)
Processed == {walkOrder[k] : k \in 1..(pos - 1)} \cap HtmlFiles(files)

OldTree(f) == before[f].tree

NewTree(f) == content[f].tree

(* C1: a second run on the tree the first run left rewrites nothing.       *)
C1_SecondRunChangesNothing ==
    run = 2 => written = {} /\ content = before

(* The tree fix_links_in_html leaves in memory for f in the current run.   *)
SoupAfter(f) ==
    fix_tree(OldTree(f), FilePathOf(f), ProjectRoot, index, files).soup

(* C4: a processed document is written back exactly when its parsed tree   *)
(* was mutated, and otherwise its bytes on disk are the ones of before.    *)
C4_WrittenIffMutated ==
    \A f \in Processed :
        LET soup == SoupAfter(f) IN
        /\ f \in written <=> soup # OldTree(f)
        /\ f \in written => content[f] = [raw |-> FALSE, tree |-> soup]
        /\ f \notin written => content[f] = before[f]

C4_Witness ==
    /\ pc = "done"
    /\ \E f \in Processed : f \in written
    /\ \E g \in Processed : g \notin written /\ OldTree(g) # <<>> /\ content[g].raw

(* The input tree of f with every element labelled by its position.        *)
Labelled(soup) ==
    [i \in 1..Len(soup) |->
        [tag |-> soup[i].tag, cls |-> soup[i].cls, id |-> soup[i].id,
         url |-> soup[i].url, text |-> soup[i].text, depth |-> soup[i].depth,
         nid |-> i]]

LabelledAfter(f) ==
    fix_tree(Labelled(OldTree(f)), FilePathOf(f), ProjectRoot, index, files).soup

Survivors(f, i) ==
    {LabelledAfter(f)[k] : k \in {j \in 1..Len(LabelledAfter(f)) : LabelledAfter(f)[j].nid = i}}

Gone(f, i) == Survivors(f, i) = {}

(* C5: in the designated document every citation span, every h2 'topics'   *)
(* heading reading 'Topics' and every placeholder paragraph of the input   *)
(* is gone and every h3 is an h2 with its attributes kept; in any other    *)
(* document no element is removed or renamed.                              *)
C5_EveryMatchEdited ==
    \A f \in Processed :
        LET soup == OldTree(f) IN
        IF Last(f) = DesignatedName
        THEN \A i \in 1..Len(soup) :
                /\ IsCitation(soup[i]) => Gone(f, i)
                /\ soup[i].tag = "h3" =>
                      \A n \in Survivors(f, i) :
                          /\ n.tag = "h2"
                          /\ n.id = soup[i].id /\ n.cls = soup[i].cls
                          /\ n.text = soup[i].text
                /\ ( /\ soup[i].tag = "h2" /\ soup[i].id = "topics"
                     /\ get_text_strip(soup, i) = <<"Topics">> ) => Gone(f, i)
                /\ ( /\ soup[i].tag = "p"
                     /\ remove_whitespace(get_text_strip(soup, i)) \in unwanted_texts )
                      => Gone(f, i)
        ELSE /\ Len(NewTree(f)) = Len(soup)
             /\ \A i \in 1..Len(soup) : NewTree(f)[i].tag = soup[i].tag

IsNotFound(href) ==
    /\ ~exists(join(ProjectRoot, lstrip(href)), files)
    /\ basename(lstrip(href)) \notin DOMAIN index

IsLeftAlone(node) ==
    /\ node.tag = "a"
    /\ node.url # None
    /\ \/ node.url[1] \in {"#", "http://", "https://"}
       \/ IsNotFound(node.url)

IsResolvable(node) == node.tag = "a" /\ node.url # None /\ ~IsLeftAlone(node)

IsRewritableImg(node) ==
    /\ node.tag = "img"
    /\ node.url # None
    /\ ~startswith(node.url, "http://") /\ ~startswith(node.url, "https://")
    /\ \A i \in 1..Len(node.url) : node.url[i] # SEP

(* C7: an <a> whose href is an anchor, an external URL or not found keeps  *)
(* its href and does not cause a write, and the other links of the same    *)
(* document are still rewritten.                                           *)
C7_SkippedLinksUntouched ==
    \A f \in Processed : Last(f) # DesignatedName =>
        LET soup == OldTree(f) IN
        /\ Len(NewTree(f)) = Len(soup)
        /\ \A i \in 1..Len(soup) : IsLeftAlone(soup[i]) => NewTree(f)[i] = soup[i]
        /\ (\A i \in 1..Len(soup) : ~IsResolvable(soup[i]) /\ ~IsRewritableImg(soup[i]))
              => f \notin written /\ content[f] = before[f]
        /\ \A i \in 1..Len(soup) : IsResolvable(soup[i]) =>
              NewTree(f)[i].url =
                  relpath(join(ProjectRoot,
                               find_target_path(soup[i].url, index, ProjectRoot, files)),
                          dirname(FilePathOf(f)))

C7_Witness ==
    \E f \in Processed :
        /\ f \in written
        /\ \E i, j \in 1..Len(OldTree(f)) :
              /\ i < j
              /\ IsLeftAlone(OldTree(f)[i]) /\ IsNotFound(OldTree(f)[i].url)
              /\ IsResolvable(OldTree(f)[j])
              /\ NewTree(f)[j] # OldTree(f)[j]

NameOf(src) ==
    IF Len(src) > 1 /\ IsExtTok(src[Len(src)]) THEN SubSeq(src, 1, Len(src) - 1) ELSE src

(* C8: an <img> src is rewritten to ../Assets/<name>@2x.png exactly when it *)
(* is not external and has no separator; otherwise it is left unchanged.   *)
C8_BareImgRewritten ==
    \A f \in Processed : Last(f) # DesignatedName =>
        \A i \in 1..Len(OldTree(f)) :
            LET node == OldTree(f)[i] IN
            node.tag = "img" /\ node.url # None =>
                IF IsRewritableImg(node)
                THEN /\ NewTree(f)[i].url =
                           <<"..", SEP, "Assets", SEP>> \o NameOf(node.url) \o <<"@2x", ".png">>
                     /\ f \in written
                ELSE NewTree(f)[i].url = node.url

C8_Witness ==
    \E f \in Processed : \E i, j \in 1..Len(OldTree(f)) :
        /\ IsRewritableImg(OldTree(f)[i])
        /\ NewTree(f)[i].url # OldTree(f)[i].url
        /\ OldTree(f)[j].tag = "img" /\ ~IsRewritableImg(OldTree(f)[j])

IndexValid ==
    \A base \in DOMAIN index : \A i \in 1..Len(index[base]) :
        LET p == RootPath \o split(index[base][i])
        IN  p \in HtmlFiles(files) /\ Last(p) = base

IndexComplete ==
    \A f \in HtmlFiles(files) :
        /\ Last(f) \in DOMAIN index
        /\ \E i \in 1..Len(index[Last(f)]) : RootPath \o split(index[Last(f)][i]) = f

(* C10: the index is built before any document is processed, is complete   *)
(* and valid while documents are processed, and is not modified after.     *)
C10_IndexBuiltOnceAndValid ==
    /\ [](pc = "start" => Processed = {} /\ written = {} /\ content = before)
    /\ [](pc # "start" => IndexValid /\ IndexComplete)
    /\ [][pc # "start" /\ run' = run => index' = index]_vars

C10_Witness ==
    /\ pc = "walk"
    /\ written # {}
    /\ \E base \in DOMAIN index : Len(index[base]) > 1
    /\ \E f \in UnderRoot(files) : ~IsHtmlName(Last(f))

====
